---- MODULE Spec2Model ----
(***************************************************************************)
(* The driver of rustbuster (src/main.rs): argument pre-flight, target     *)
(* generation, the worker thread that publishes results on one mpsc        *)
(* channel, the receive loop of the dir, dns and vhost modes with its      *)
(* error triage, classification and display, and the finalization.         *)
(***************************************************************************)
EXTENDS Integers, Sequences, FiniteSets, TLC

\* ------------------------------------------------------------- bounds
\* Longest wordlist explored (one probe per entry).
MaxWords == 2

\* Longest run explored by the req/s check, in whole seconds.
MaxSeconds == 2

\* Longest status text explored by the alignment check.
MaxStatusLen == 33

\* Wordlist entries; two equal entries give two probes with the same key.
Words == {"a", "b"}

\* ------------------------------------------------------------- state
VARIABLES
    mode,                        \* subcommand: "dir", "dns", "vhost", "fuzz"
    all_wordlists_exist,         \* every wordlist path has metadata
    url_valid,                   \* url_is_valid(&http_args.url)
    ignore_strings,              \* body_args.ignore_strings (vhost)
    exit_on_connection_errors,   \* common_args.exit_on_connection_errors
    output,                      \* common_args.output ("" when not given)
    wordlist,                    \* entries of common_args.wordlist_paths[0]
    statuses,                    \* status texts the target's responses carry
    csrf_args,                   \* fuzz: which --csrf-* options were given
    time_limit,                  \* whole seconds the run lasts at most
    pc,                          \* position of the driver in main
    built,                       \* the target list has been generated
    targets,                     \* urls / domains / vhosts
    total_numbers_of_request,
    current_numbers_of_request,
    worker,                      \* "none", "running" (tx alive), "exited" (tx dropped)
    pending,                     \* probe indexes not yet taken by the workers
    chan,                        \* results sent and not yet received
    msg,                         \* the result the driver is handling
    was_added,                   \* dir: return value of maybe_add_result
    received,                    \* every result received, in order
    offered,                     \* ids passed to maybe_add_result, in order
    results,                     \* result_processor.results
    display,                     \* lines printed through the progress sink
    bar_pos,                     \* progress bar position
    bar_message,                 \* text of the req/s field ("" before the first update)
    seconds_from_start,          \* elapsed whole seconds at the last update
    bar_finished,                \* bar.finish() was called
    saved,                       \* list of result vectors handed to save_*_results
    fuzz_ran,                    \* fuzzbuster.run() was called
    fuzzbuster,                  \* fuzz: which csrf fields of FuzzBuster are Some
    exit_code                    \* -1 while the process runs

vars == <<mode, all_wordlists_exist, url_valid, ignore_strings,
          exit_on_connection_errors, output, wordlist, statuses, csrf_args,
          time_limit, pc, built,
          targets,
          total_numbers_of_request, current_numbers_of_request, worker,
          pending, chan, msg, was_added, received, offered, results, display,
          bar_pos, bar_message, seconds_from_start, bar_finished, saved, fuzz_ran, fuzzbuster, exit_code>>

args == <<mode, all_wordlists_exist, url_valid, ignore_strings,
          exit_on_connection_errors, output, wordlist, statuses, csrf_args,
          time_limit>>

NoMsg == [id |-> 0]

NoCsrf == [url |-> FALSE, regex |-> FALSE, header |-> FALSE]

Modes == {"dir", "dns", "vhost", "fuzz"}

\* All sequences over S of length at most n.
SeqsUpTo(S, n) == UNION {[1..k -> S] : k \in 0..n}

\* A status text of n characters.
RECURSIVE StatusOfLen(_)
StatusOfLen(n) == IF n = 0 THEN "" ELSE StatusOfLen(n - 1) \o "x"

\* The arguments of a run and the state of main before its first check.
Start ==
    /\ mode \in Modes
    /\ all_wordlists_exist \in BOOLEAN
    \* dns takes no URL: url_is_valid is never evaluated there
    /\ url_valid \in IF mode = "dns" THEN {TRUE} ELSE BOOLEAN
    \* only the vhost and fuzz subcommands carry the body arguments
    /\ ignore_strings \in IF mode \in {"vhost", "fuzz"}
                            THEN {{}, {"not found"}} ELSE {{}}
    /\ exit_on_connection_errors \in BOOLEAN
    /\ output \in {"", "out.txt"}
    /\ wordlist \in SeqsUpTo(Words, MaxWords)
    \* only the fuzz subcommand declares the --csrf-* options
    /\ csrf_args \in IF mode = "fuzz"
                       THEN [url : BOOLEAN, regex : BOOLEAN, header : BOOLEAN]
                       ELSE {NoCsrf}
    /\ pc = "parse"
    /\ built = FALSE
    /\ targets = <<>>
    /\ total_numbers_of_request = 0
    /\ current_numbers_of_request = 0
    /\ worker = "none"
    /\ pending = {}
    /\ chan = <<>>
    /\ msg = NoMsg
    /\ was_added = FALSE
    /\ received = <<>>
    /\ offered = <<>>
    /\ results = <<>>
    /\ display = <<>>
    /\ bar_pos = 0
    /\ bar_message = ""
    /\ seconds_from_start = 0
    /\ bar_finished = FALSE
    /\ saved = <<>>
    /\ fuzz_ran = FALSE
    /\ fuzzbuster = [csrf_url |-> FALSE, csrf_regex |-> FALSE,
                     csrf_headers |-> FALSE]
    /\ exit_code = -1

\* Status texts of a target that answers 200 or 404 (vhost: 200).
DefaultStatuses == IF mode = "dir" THEN {"200", "404"} ELSE {"200"}

\* Runs against a target that answers 200 or 404 (vhost: 200) and that end
\* within the first second.
Init ==
    /\ Start
    /\ statuses = DefaultStatuses
    /\ time_limit = 0

\* Runs that last up to MaxSeconds seconds (no output file, no exit on
\* connection errors: neither is read by the req/s update).
RateInit ==
    /\ Start
    /\ statuses = DefaultStatuses
    /\ time_limit = MaxSeconds
    /\ output = ""
    /\ ~exit_on_connection_errors

\* Runs of one probe against a target whose status text has any length up to
\* MaxStatusLen.
TabsInit ==
    /\ Start
    /\ Len(wordlist) = 1
    /\ statuses \in {{StatusOfLen(n)} : n \in 0..MaxStatusLen}
    /\ time_limit = 0

\* `return` from main: the process ends with the status of a normal return.
ReturnFromMain ==
    /\ pc' = "exited"
    /\ exit_code' = 0

\* The declarations without csrf-regex requiring csrf-url.
ClapAcceptsRegexAlone ==
    /\ csrf_args.url => csrf_args.regex
    /\ csrf_args.header => csrf_args.url

\* The `requires` declarations of the fuzz subcommand: csrf-url requires
\* csrf-regex, csrf-regex requires csrf-url, csrf-header requires csrf-url.
ClapAccepts ==
    /\ csrf_args.url => csrf_args.regex
    /\ csrf_args.regex => csrf_args.url
    /\ csrf_args.header => csrf_args.url

\* main: get_matches(); a command line that breaks a declaration ends the
\* process with the parser's usage error.
ParseArgs ==
    /\ pc = "parse"
    /\ IF ClapAccepts
         THEN pc' = "check_wordlists" /\ UNCHANGED exit_code
         ELSE pc' = "exited" /\ exit_code' = 1
    /\ UNCHANGED <<args, built, targets, total_numbers_of_request,
                   current_numbers_of_request, worker, pending, chan, msg,
                   was_added, received, offered, results, display, bar_pos, bar_message, seconds_from_start,
                   bar_finished, saved, fuzz_ran, fuzzbuster>>

\* main: the wordlist existence check and its early return.
CheckWordlists ==
    /\ pc = "check_wordlists"
    /\ IF ~all_wordlists_exist
         THEN ReturnFromMain
         ELSE pc' = "preflight" /\ UNCHANGED exit_code
    /\ UNCHANGED <<args, built, targets, total_numbers_of_request,
                   current_numbers_of_request, worker, pending, chan, msg,
                   was_added, received, offered, results, display, bar_pos, bar_message, seconds_from_start,
                   bar_finished, saved, fuzz_ran, fuzzbuster>>

\* The pre-flight without the vhost ignore-string requirement.
PreflightFailsUrlOnly ==
    CASE mode \in {"dir", "vhost", "fuzz"} -> ~url_valid
      [] OTHER                             -> FALSE

\* The checks a mode makes on its own arguments before any target is built:
\* dir and fuzz validate the URL; vhost requires an ignore string, then
\* validates the URL; dns checks nothing.
PreflightFails ==
    CASE mode = "dir"   -> ~url_valid
      [] mode = "vhost" -> ignore_strings = {} \/ ~url_valid
      [] mode = "fuzz"  -> ~url_valid
      [] OTHER          -> FALSE

\* main: `match mode`, up to the early returns of the selected arm.
Preflight ==
    /\ pc = "preflight"
    /\ IF PreflightFails
         THEN ReturnFromMain
         ELSE /\ pc' = IF mode = "fuzz" THEN "fuzz_run" ELSE "build"
              /\ UNCHANGED exit_code
    /\ UNCHANGED <<args, built, targets, total_numbers_of_request,
                   current_numbers_of_request, worker, pending, chan, msg,
                   was_added, received, offered, results, display, bar_pos, bar_message, seconds_from_start,
                   bar_finished, saved, fuzz_ran, fuzzbuster>>

\* Target Generator: one probe per wordlist entry, in wordlist order
\* (dir: base URL and entry, no extension and no appended slash; dns: entry,
\* parent domain and a trailing dot; vhost: entry and parent domain).
BuildTargets(w) ==
    [i \in 1..Len(w) |->
        CASE mode = "dir"   -> "http://h/" \o w[i]
          [] mode = "dns"   -> w[i] \o ".t.io."
          [] OTHER          -> w[i] \o ".t.io"]

\* main: build_urls / build_domains / build_vhosts, total, channel(),
\* result processor and progress bar construction.
Build ==
    /\ pc = "build"
    /\ targets' = BuildTargets(wordlist)
    /\ total_numbers_of_request' = Len(targets')
    /\ built' = TRUE
    /\ pc' = "spawn"
    /\ UNCHANGED <<args, current_numbers_of_request, worker, pending, chan,
                   msg, was_added, received, offered, results, display,
                   bar_pos, bar_message, seconds_from_start, bar_finished, saved, fuzz_ran, fuzzbuster, exit_code>>

\* main: thread::spawn(move || <mode>buster::run(tx, targets, config)).
Spawn ==
    /\ pc = "spawn"
    /\ worker' = "running"
    /\ pending' = 1..Len(targets)
    /\ pc' = "loop"
    /\ UNCHANGED <<args, built, targets, total_numbers_of_request,
                   current_numbers_of_request, chan, msg, was_added, received,
                   offered, results, display, bar_pos, bar_message, seconds_from_start, bar_finished, saved,
                   fuzz_ran, fuzzbuster, exit_code>>

\* main, fuzz arm: the FuzzBuster configuration is built and run; control
\* comes back to main, which returns.
FuzzRun ==
    /\ pc = "fuzz_run"
    /\ fuzz_ran' = TRUE
    /\ fuzzbuster' = [csrf_url |-> csrf_args.url,
                      csrf_regex |-> csrf_args.regex,
                      csrf_headers |-> csrf_args.header]
    /\ ReturnFromMain
    /\ UNCHANGED <<args, built, targets, total_numbers_of_request,
                   current_numbers_of_request, worker, pending, chan, msg,
                   was_added, received, offered, results, display, bar_pos, bar_message, seconds_from_start,
                   bar_finished, saved>>

\* ------------------------------------------------------------ workers
\* The results one probe can produce, by mode.  A transport failure has
\* `error` set and no status; dns has no error field: a failed lookup is an
\* unresolved result.
ResultsOf(i) ==
    CASE mode = "dir" ->
           {[id |-> i, method |-> "GET", url |-> targets[i], status |-> o[1],
             error |-> o[2]] :
                o \in {<<s, FALSE>> : s \in statuses} \cup {<<"", TRUE>>}}
      [] mode = "vhost" ->
           {[id |-> i, method |-> "GET", vhost |-> targets[i], status |-> o[1],
             error |-> o[2], ignored |-> o[3]] :
                o \in {<<s, FALSE, FALSE>> : s \in statuses}
                        \cup {<<s, FALSE, TRUE>> : s \in statuses}
                        \cup {<<"", TRUE, FALSE>>}}
      [] OTHER ->
           {[id |-> i, domain |-> targets[i], status |-> o[1], extra |-> o[2]] :
                o \in {<<TRUE, <<"IPv4">> >>, <<TRUE, <<"IPv4", "IPv6">> >>,
                       <<FALSE, <<>> >>}}

\* A worker takes any probe not yet taken, issues it and publishes the
\* result on the result channel.  The process ends when main returns.
WorkerSend ==
    /\ worker = "running"
    /\ pc # "exited"
    /\ \E i \in pending :
         \E r \in ResultsOf(i) :
            /\ chan' = Append(chan, r)
            /\ pending' = pending \ {i}
    /\ UNCHANGED <<args, pc, built, targets, total_numbers_of_request,
                   current_numbers_of_request, worker, msg, was_added,
                   received, offered, results, display, bar_pos, bar_message, seconds_from_start, bar_finished,
                   saved, fuzz_ran, fuzzbuster, exit_code>>

\* run() returns (or its thread dies): the last sender is dropped.
WorkerExit ==
    /\ worker = "running"
    /\ pc # "exited"
    /\ worker' = "exited"
    /\ UNCHANGED <<args, pc, built, targets, total_numbers_of_request,
                   current_numbers_of_request, pending, chan, msg, was_added,
                   received, offered, results, display, bar_pos, bar_message, seconds_from_start, bar_finished,
                   saved, fuzz_ran, fuzzbuster, exit_code>>

\* ---------------------------------------------------------- aggregator
\* Status filters of the dir result processor (-s / -S); both lists are
\* left at their defaults, so dir drops 404.
include_status_codes == {}

ignore_status_codes == {}

DirStatusKept(s) ==
    IF include_status_codes # {} THEN s \in include_status_codes
    ELSE IF ignore_status_codes # {} THEN s \notin ignore_status_codes
    ELSE s # "404"

\* Mode-specific uniqueness key of a result.
KeyOf(m) ==
    CASE mode = "dir"   -> <<m.method, m.url, m.status>>
      [] mode = "vhost" -> <<m.method, m.vhost, m.status>>
      [] OTHER          -> <<m.domain>>

Seen(rs, m) == \E j \in 1..Len(rs) : KeyOf(rs[j]) = KeyOf(m)

\* Result Classifier: is the result a finding of its mode?
Reportable(m) ==
    CASE mode = "dir"   -> ~m.error /\ DirStatusKept(m.status)
      [] mode = "vhost" -> ~m.error /\ ~m.ignored
      [] OTHER          -> m.status /\ Len(m.extra) >= 1

\* result_processor.maybe_add_result: append a reportable result whose key
\* is not in the vector yet.
MaybeAddResult(rs, m) ==
    IF Reportable(m) /\ ~Seen(rs, m) THEN Append(rs, m) ELSE rs

\* ------------------------------------------------------------- driver
\* A loop test that lets the counter pass the total.
LoopContinuesUpTo(cur, tot) == cur <= tot

\* while current_numbers_of_request != total_numbers_of_request
LoopContinues(cur, tot) == cur # tot

\* An increment of two.
CounterNextSkips(n) == n + 2

\* current_numbers_of_request = current_numbers_of_request + 1
CounterNext(n) == n + 1

\* The rate shown from the first instant, with the divisor raised to one.
ReqPerSecFromStart(n, secs) ==
    ToString(n \div (IF secs = 0 THEN 1 ELSE secs))

\* The req/s field: the counter divided by the elapsed whole seconds, or the
\* warm-up text while that number is zero.
ReqPerSec(n, secs) ==
    IF secs # 0 THEN ToString(n \div secs) ELSE "warming up..."

\* The loop test, the counter increment, bar.inc(1), the reading of the
\* clock (start_time.elapsed() in whole seconds) and bar.set_message.
LoopHead ==
    /\ pc = "loop"
    /\ IF LoopContinues(current_numbers_of_request, total_numbers_of_request)
         THEN /\ current_numbers_of_request' =
                    CounterNext(current_numbers_of_request)
              /\ bar_pos' = bar_pos + 1
              /\ \E secs \in seconds_from_start..time_limit :
                    /\ seconds_from_start' = secs
                    /\ bar_message' =
                          ReqPerSec(current_numbers_of_request', secs)
              /\ pc' = "recv"
         ELSE /\ pc' = "finish"
              /\ UNCHANGED <<current_numbers_of_request, bar_pos,
                             bar_message, seconds_from_start>>
    /\ UNCHANGED <<args, built, targets, total_numbers_of_request, worker,
                   pending, chan, msg, was_added, received, offered, results,
                   display, bar_finished, saved, fuzz_ran, fuzzbuster,
                   exit_code>>

\* rx.recv() returning Ok(msg): the oldest result in the channel.
RecvOk ==
    /\ pc = "recv"
    /\ chan # <<>>
    /\ msg' = Head(chan)
    /\ chan' = Tail(chan)
    /\ received' = Append(received, Head(chan))
    /\ pc' = IF mode = "dns" THEN "classify" ELSE "triage"
    /\ UNCHANGED <<args, built, targets, total_numbers_of_request,
                   current_numbers_of_request, worker, pending, was_added,
                   offered, results, display, bar_pos, bar_message, seconds_from_start, bar_finished, saved,
                   fuzz_ran, fuzzbuster, exit_code>>

\* `continue` in place of `break` on a failed receive.
AfterRecvErrContinue == "loop"

\* Where the driver goes when rx.recv() returns Err: `break`.
AfterRecvErr == "finish"

\* rx.recv() returning Err(RecvError): the channel is empty and every
\* sender is gone.
RecvErr ==
    /\ pc = "recv"
    /\ chan = <<>>
    /\ worker = "exited"
    /\ pc' = AfterRecvErr
    /\ UNCHANGED <<args, built, targets, total_numbers_of_request,
                   current_numbers_of_request, worker, pending, chan, msg,
                   was_added, received, offered, results, display, bar_pos, bar_message, seconds_from_start,
                   bar_finished, saved, fuzz_ran, fuzzbuster, exit_code>>

\* The triage without the first-result test.
ErrorBreaksFlagOnly(m) == m.error /\ exit_on_connection_errors

\* match &msg.error: does this result break out of the loop?
ErrorBreaks(m) ==
    m.error /\ (current_numbers_of_request = 1 \/ exit_on_connection_errors)

\* dir and vhost: the error triage that follows the receive.
Triage ==
    /\ pc = "triage"
    /\ pc' = IF ErrorBreaks(msg) THEN "finish" ELSE "classify"
    /\ UNCHANGED <<args, built, targets, total_numbers_of_request,
                   current_numbers_of_request, worker, pending, chan, msg,
                   was_added, received, offered, results, display, bar_pos, bar_message, seconds_from_start,
                   bar_finished, saved, fuzz_ran, fuzzbuster, exit_code>>

\* Lines written above what was printed before.
EmitOnTop(d, lines) == lines \o d

\* println! / bar.println: the lines go after everything printed so far.
Emit(d, lines) == d \o lines

\* dir: let was_added = result_processor.maybe_add_result(msg.clone()).
ClassifyDir ==
    /\ pc = "classify"
    /\ mode = "dir"
    /\ offered' = Append(offered, msg.id)
    /\ results' = MaybeAddResult(results, msg)
    /\ was_added' = (results' # results)
    /\ pc' = "display"
    /\ UNCHANGED <<args, built, targets, total_numbers_of_request,
                   current_numbers_of_request, worker, pending, chan, msg,
                   received, display, bar_pos, bar_message, seconds_from_start, bar_finished, saved, fuzz_ran, fuzzbuster,
                   exit_code>>

\* dir: let n_tabs = match msg.status.len() / 8 { 3 => 1, 2 => 2, ... }.
n_tabs_dir(len) ==
    CASE len \div 8 = 3 -> 1
      [] len \div 8 = 2 -> 2
      [] len \div 8 = 1 -> 3
      [] len \div 8 = 0 -> 4
      [] OTHER          -> 0

\* The vhost match with the arms for 2 and 3 exchanged.
n_tabs_vhost_swapped(len) ==
    CASE len \div 8 = 3 -> 2
      [] len \div 8 = 2 -> 1
      [] len \div 8 = 1 -> 3
      [] len \div 8 = 0 -> 4
      [] OTHER          -> 0

\* vhost: the same match, written again in the vhost arm.
n_tabs_vhost(len) ==
    CASE len \div 8 = 3 -> 1
      [] len \div 8 = 2 -> 2
      [] len \div 8 = 1 -> 3
      [] len \div 8 = 0 -> 4
      [] OTHER          -> 0

\* dir: the lines printed for a result, given was_added.
DirLines(m, added) ==
    IF added
      THEN <<[id |-> m.id, kind |-> "finding", status |-> m.status,
              tabs |-> n_tabs_dir(Len(m.status))]>>
      ELSE <<>>

\* dir: if was_added { println / bar.println }.
DisplayDir ==
    /\ pc = "display"
    /\ mode = "dir"
    /\ display' = Emit(display, DirLines(msg, was_added))
    /\ pc' = "loop"
    /\ UNCHANGED <<args, built, targets, total_numbers_of_request,
                   current_numbers_of_request, worker, pending, chan, msg,
                   was_added, received, offered, results, bar_pos, bar_message, seconds_from_start,
                   bar_finished, saved, fuzz_ran, fuzzbuster, exit_code>>

\* The report block without its guard.
VhostReportsAll(m) == TRUE

\* vhost: the guard of the report block, if !msg.ignored.
VhostReports(m) == ~m.ignored

\* vhost: if !msg.ignored { result_processor.maybe_add_result(msg.clone()); ...
ClassifyVhost ==
    /\ pc = "classify"
    /\ mode = "vhost"
    /\ IF VhostReports(msg)
         THEN /\ offered' = Append(offered, msg.id)
              /\ results' = MaybeAddResult(results, msg)
              /\ pc' = "display"
         ELSE /\ pc' = "loop"
              /\ UNCHANGED <<offered, results>>
    /\ UNCHANGED <<args, built, targets, total_numbers_of_request,
                   current_numbers_of_request, worker, pending, chan, msg,
                   was_added, received, display, bar_pos, bar_message, seconds_from_start, bar_finished, saved,
                   fuzz_ran, fuzzbuster, exit_code>>

\* vhost: the line printed for a result that is not ignored.
VhostLines(m) ==
    <<[id |-> m.id, kind |-> "finding", status |-> m.status,
       tabs |-> n_tabs_vhost(Len(m.status))]>>

\* vhost: ... println / bar.println } inside the same block.
DisplayVhost ==
    /\ pc = "display"
    /\ mode = "vhost"
    /\ display' = Emit(display, VhostLines(msg))
    /\ pc' = "loop"
    /\ UNCHANGED <<args, built, targets, total_numbers_of_request,
                   current_numbers_of_request, worker, pending, chan, msg,
                   was_added, received, offered, results, bar_pos, bar_message, seconds_from_start,
                   bar_finished, saved, fuzz_ran, fuzzbuster, exit_code>>

\* The result handed to the aggregator twice in one iteration.
ClassifyDnsTwice ==
    /\ pc = "classify"
    /\ mode = "dns"
    /\ offered' = Append(Append(offered, msg.id), msg.id)
    /\ results' = MaybeAddResult(MaybeAddResult(results, msg), msg)
    /\ pc' = "display"
    /\ UNCHANGED <<args, built, targets, total_numbers_of_request,
                   current_numbers_of_request, worker, pending, chan, msg,
                   was_added, received, display, bar_pos, bar_message, seconds_from_start, bar_finished, saved,
                   fuzz_ran, fuzzbuster, exit_code>>

\* dns: result_processor.maybe_add_result(msg.clone()), return value unused.
ClassifyDns ==
    /\ pc = "classify"
    /\ mode = "dns"
    /\ offered' = Append(offered, msg.id)
    /\ results' = MaybeAddResult(results, msg)
    /\ pc' = "display"
    /\ UNCHANGED <<args, built, targets, total_numbers_of_request,
                   current_numbers_of_request, worker, pending, chan, msg,
                   was_added, received, display, bar_pos, bar_message, seconds_from_start, bar_finished, saved,
                   fuzz_ran, fuzzbuster, exit_code>>

\* &msg.domain[..msg.domain.len() - 3]: the domain without its last three
\* characters.
OkName(domain) == SubSeq(domain, 1, Len(domain) - 3)

\* The OK line printed whatever the status.
DnsLinesAnyStatus(m) ==
    <<[id |-> m.id, kind |-> "OK", text |-> OkName(m.domain)]>> \o
    [j \in 1..Len(m.extra) |-> [id |-> m.id, kind |-> m.extra[j]]]

\* dns: match msg.status: the OK line, then one line per address.
DnsLines(m) ==
    IF m.status
      THEN <<[id |-> m.id, kind |-> "OK", text |-> OkName(m.domain)]>> \o
           [j \in 1..Len(m.extra) |-> [id |-> m.id, kind |-> m.extra[j]]]
      ELSE <<>>

DisplayDns ==
    /\ pc = "display"
    /\ mode = "dns"
    /\ display' = Emit(display, DnsLines(msg))
    /\ pc' = "loop"
    /\ UNCHANGED <<args, built, targets, total_numbers_of_request,
                   current_numbers_of_request, worker, pending, chan, msg,
                   was_added, received, offered, results, bar_pos, bar_message, seconds_from_start,
                   bar_finished, saved, fuzz_ran, fuzzbuster, exit_code>>

\* bar.finish(); println!(ending banner).
Finish ==
    /\ pc = "finish"
    /\ bar_finished' = TRUE
    /\ pc' = "save"
    /\ UNCHANGED <<args, built, targets, total_numbers_of_request,
                   current_numbers_of_request, worker, pending, chan, msg,
                   was_added, received, offered, results, display, bar_pos, bar_message, seconds_from_start,
                   saved, fuzz_ran, fuzzbuster, exit_code>>

\* The save made whatever the output path.
SaveAlways == TRUE

\* if !common_args.output.is_empty()
SaveWanted == output # ""

\* save_<mode>_results(&common_args.output, &result_processor.results),
\* then the end of main.
Save ==
    /\ pc = "save"
    /\ saved' = IF SaveWanted THEN Append(saved, results) ELSE saved
    /\ ReturnFromMain
    /\ UNCHANGED <<args, built, targets, total_numbers_of_request,
                   current_numbers_of_request, worker, pending, chan, msg,
                   was_added, received, offered, results, display, bar_pos, bar_message, seconds_from_start,
                   bar_finished, fuzz_ran, fuzzbuster>>

Next ==
    \/ ParseArgs
    \/ CheckWordlists
    \/ Preflight
    \/ Build
    \/ Spawn
    \/ FuzzRun
    \/ WorkerSend
    \/ WorkerExit
    \/ LoopHead
    \/ RecvOk
    \/ RecvErr
    \/ Triage
    \/ ClassifyDir
    \/ DisplayDir
    \/ ClassifyVhost
    \/ DisplayVhost
    \/ ClassifyDns
    \/ DisplayDns
    \/ Finish
    \/ Save

Spec == Init /\ [][Next]_vars

TabsSpec == TabsInit /\ [][Next]_vars

RateSpec == RateInit /\ [][Next]_vars

\* The steps of the main thread.
Driver ==
    \/ ParseArgs
    \/ CheckWordlists
    \/ Preflight
    \/ Build
    \/ Spawn
    \/ FuzzRun
    \/ LoopHead
    \/ RecvOk
    \/ RecvErr
    \/ Triage
    \/ ClassifyDir
    \/ DisplayDir
    \/ ClassifyVhost
    \/ DisplayVhost
    \/ ClassifyDns
    \/ DisplayDns
    \/ Finish
    \/ Save

\* The main thread is scheduled whenever it can run.
FairSpec == Spec /\ WF_vars(Driver)

\* The worker threads are scheduled too: while run() has not returned it
\* publishes a result or returns.
FairWorkersSpec == Spec /\ WF_vars(Driver) /\ WF_vars(WorkerSend \/ WorkerExit)
\* ------------------------------------------------------------- claims
Ids(seq) == {seq[j].id : j \in 1..Len(seq)}

Elems(seq) == {seq[j] : j \in 1..Len(seq)}

HttpMode == mode \in {"dir", "vhost"}

\* C1: in dir and vhost mode an error result stops the receive loop (no
\* further receive, no classification, no display of it) when it is the first
\* result received or exit_on_connection_errors is set, and only then: any
\* other error result goes on to classification.
C1_ErrorTriage ==
    /\ [](\A k \in 1..Len(received) :
            (HttpMode /\ received[k].error
                /\ (k = 1 \/ exit_on_connection_errors))
            => /\ k = Len(received)
               /\ received[k].id \notin Elems(offered)
               /\ received[k].id \notin Ids(display))
    /\ [][(HttpMode /\ pc = "triage" /\ msg.error /\ pc' # pc)
            => IF Len(received) = 1 \/ exit_on_connection_errors
                 THEN pc' = "finish"
                 ELSE pc' = "classify"]_vars

\* An error result that is not the first one ended the loop because the flag
\* is set.
C1_Witness ==
    /\ HttpMode
    /\ pc = "finish"
    /\ exit_on_connection_errors
    /\ Len(received) = 2
    /\ ~received[1].error
    /\ received[2].error

\* A probe whose result the driver sees as a transport failure: `error` set
\* in dir and vhost; in dns, which has no error field, a failed lookup.
TransportFailure(m) == IF mode = "dns" THEN ~m.status ELSE m.error

\* C2: in dir, dns and vhost mode with exit_on_connection_errors set, when
\* the first result is a transport failure the driver ends its receive loop
\* right after it, the aggregator is empty at the end and the exit code is 0.
C2_FirstFailureStops ==
    (built /\ exit_on_connection_errors /\ Len(received) >= 1
        /\ TransportFailure(received[1]))
    => /\ Len(received) = 1
       /\ pc \notin {"classify", "display", "loop", "recv"}
       /\ (pc = "exited" => results = <<>> /\ exit_code = 0)

\* C3: when every sender is gone and the channel is empty before total
\* results were received, the receive fails, the loop ends without another
\* result, and the driver reaches the end of finalization: bar finished,
\* results saved when an output path was given.
C3_ClosedChannelEnds ==
    /\ [][(pc = "recv" /\ chan = <<>> /\ worker = "exited" /\ pc' # pc)
            => (pc' = "finish" /\ received' = received)]_vars
    /\ ((built /\ worker = "exited"
            /\ Len(received) + Len(chan) < total_numbers_of_request)
          ~> (pc = "exited" /\ bar_finished
                /\ (output # "" => saved = <<results>>)))

\* The driver waited on an empty, closed channel with results still owed, and
\* went to finalization.
C3_Witness ==
    /\ pc = "finish"
    /\ worker = "exited"
    /\ chan = <<>>
    /\ Len(received) = 1
    /\ total_numbers_of_request = 2
    /\ current_numbers_of_request = 2

\* The configuration errors the driver detects.
ConfigError ==
    \/ ~all_wordlists_exist
    \/ mode \in {"dir", "vhost", "fuzz"} /\ ~url_valid
    \/ mode = "vhost" /\ ignore_strings = {}

\* C4: a run with a configuration error builds no target list, starts no
\* worker, receives no result and saves nothing.
C4_ConfigErrorBeforeProbes ==
    ConfigError
    => /\ ~built
       /\ targets = <<>>
       /\ worker = "none"
       /\ chan = <<>>
       /\ received = <<>>
       /\ saved = <<>>
       /\ ~fuzz_ran
       /\ ~bar_finished

\* A vhost run without ignore strings, otherwise well configured, has ended.
C4_Witness ==
    /\ mode = "vhost"
    /\ ignore_strings = {}
    /\ all_wordlists_exist
    /\ url_valid
    /\ pc = "exited"

\* C5: the exit code is 0 when the scan completes and non-zero when the run
\* is stopped by a configuration error.
C5_ExitCodes ==
    (pc = "exited" /\ ClapAccepts)
    => IF ConfigError THEN exit_code # 0 ELSE exit_code = 0

\* C6: in dir, dns and vhost mode a display line is printed for a received
\* result only when that result was appended to the aggregator; a result
\* whose key is already there prints nothing.
C6_DisplayOnlyNew ==
    \A j \in 1..Len(display) : display[j].id \in Ids(results)

\* C7: in vhost mode a result marked ignored is never passed to
\* maybe_add_result and never printed.
C7_IgnoredNeverReported ==
    mode = "vhost"
    => \A k \in 1..Len(received) :
          received[k].ignored
          => /\ received[k].id \notin Elems(offered)
             /\ received[k].id \notin Ids(display)

\* An ignored vhost result has been handled after a reported one.
C7_Witness ==
    /\ mode = "vhost"
    /\ pc = "loop"
    /\ Len(received) = 2
    /\ received[2].ignored
    /\ Len(display) = 1

Arrival(i) == CHOOSE k \in 1..Len(received) : received[k].id = i

\* C9: the driver handles one result at a time: the result in hand is the
\* last one received, and both the display lines and the aggregator entries
\* follow the order of arrival.
C9_ArrivalOrder ==
    /\ Len(received) > 0 => msg = received[Len(received)]
    /\ Ids(display) \subseteq Ids(received)
    /\ Ids(results) \subseteq Ids(received)
    /\ \A i, j \in 1..Len(display) :
          i < j => Arrival(display[i].id) <= Arrival(display[j].id)
    /\ \A i, j \in 1..Len(results) :
          i < j => Arrival(results[i].id) < Arrival(results[j].id)
    /\ Elems(offered) \subseteq Ids(received)
    /\ \A i, j \in 1..Len(offered) :
          i < j => Arrival(offered[i]) < Arrival(offered[j])
    /\ pc \in {"triage", "classify"} =>
          (msg.id \notin Ids(display) /\ msg.id \notin Ids(results))

\* Two findings were displayed and aggregated, the probe sent second first.
C9_Witness ==
    /\ Len(display) >= 2
    /\ Len(results) = 2
    /\ results[1].id = 2
    /\ results[2].id = 1

\* C10: after the loop the progress bar is closed first; the results are then
\* handed to the serializer once if an output path was given and never
\* otherwise; nothing is received or appended once the bar is closed.
C10_Finalization ==
    /\ [](/\ saved # <<>> => (bar_finished /\ output # "" /\ saved = <<results>>)
          /\ (pc = "exited" /\ built) =>
                (bar_finished /\ (output # "" <=> Len(saved) = 1))
          /\ (pc = "save") => (bar_finished /\ saved = <<>>))
    /\ [][bar_finished =>
            (bar_finished' /\ received' = received /\ results' = results
                /\ display' = display)]_vars

\* A run with an output path ended with its findings saved.
C10_Witness ==
    /\ pc = "exited"
    /\ output # ""
    /\ Len(results) >= 1
    /\ saved = <<results>>

\* The number of tabs the specification gives a status text of n characters.
ExpectedTabs(n) ==
    IF n < 8 THEN 4 ELSE IF n < 16 THEN 3 ELSE IF n < 24 THEN 2
    ELSE IF n < 32 THEN 1 ELSE 0

\* C11: every dir and vhost display line has 4, 3, 2, 1 tabs after a status
\* text of length in [0,8), [8,16), [16,24), [24,32), and none from 32 on,
\* the same in both modes.
C11_AlignmentTabs ==
    HttpMode
    => \A j \in 1..Len(display) :
          display[j].tabs = ExpectedTabs(Len(display[j].status))

\* A vhost line was printed for a status text of 24 to 31 characters.
C11_Witness ==
    /\ mode = "vhost"
    /\ Len(display) = 1
    /\ Len(display[1].status) \in 24..31
    /\ display[1].tabs = 1

\* C12: the FuzzBuster configuration of every accepted fuzz invocation has
\* csrf_url exactly when it has csrf_regex, and csrf_headers only with
\* csrf_url.
C12_CsrfConfigWhole ==
    fuzz_ran
    => /\ fuzzbuster.csrf_url <=> fuzzbuster.csrf_regex
       /\ fuzzbuster.csrf_headers => fuzzbuster.csrf_url

\* A fuzz run was started with the three csrf options.
C12_Witness ==
    /\ fuzz_ran
    /\ fuzzbuster.csrf_url
    /\ fuzzbuster.csrf_regex
    /\ fuzzbuster.csrf_headers

\* A received result that triggered the early exit.
EarlyExit ==
    /\ HttpMode
    /\ \E k \in 1..Len(received) :
          received[k].error /\ (k = 1 \/ exit_on_connection_errors)

\* The driver has left its receive loop.
LoopOver == built /\ pc \in {"finish", "save", "exited"}

\* C13: in dir, dns and vhost mode the driver makes at most total receives;
\* when the workers delivered total results and none triggered an early exit
\* the loop ends with exactly total results received; with total = 0 nothing
\* is received; and with the workers scheduled fairly every run ends.
C13_BoundedReceives ==
    /\ [](/\ current_numbers_of_request <= total_numbers_of_request
          /\ Len(received) <= current_numbers_of_request
          /\ (built /\ total_numbers_of_request = 0)
                => (received = <<>> /\ current_numbers_of_request = 0
                      /\ pc \in {"spawn", "loop", "finish", "save", "exited"})
          /\ (LoopOver /\ ~EarlyExit /\ worker # "none" /\ pending = {})
                => Len(received) = total_numbers_of_request)
    /\ <>(pc = "exited")

\* A run of two probes ended with both results received.
C13_Witness ==
    /\ pc = "exited"
    /\ ~EarlyExit
    /\ total_numbers_of_request = 2
    /\ Len(received) = 2

\* C14: the progress counter starts at 0, stays within 0..total, changes
\* only by the increment of one at the head of a loop iteration, which every
\* iteration makes, and the bar position moves with it.
C14_CounterMonotonic ==
    /\ (pc = "parse" => current_numbers_of_request = 0)
    /\ [](/\ 0 <= current_numbers_of_request
          /\ current_numbers_of_request <= total_numbers_of_request
          /\ bar_pos = current_numbers_of_request)
    /\ [][\/ /\ current_numbers_of_request' = current_numbers_of_request
             /\ bar_pos' = bar_pos
             /\ ~(pc = "loop" /\ pc' = "recv")
          \/ /\ pc = "loop" /\ pc' = "recv"
             /\ current_numbers_of_request' = current_numbers_of_request + 1
             /\ bar_pos' = bar_pos + 1]_vars

\* The counter reached a total of two.
C14_Witness ==
    /\ total_numbers_of_request = 2
    /\ current_numbers_of_request = 2
    /\ bar_pos = 2
    /\ Len(received) = 2

\* C15 as stated: at every update the field shows the number of results
\* received so far divided by max(1, elapsed whole seconds), also during the
\* first second.
C15_RateAsStated ==
    pc = "recv"
    => bar_message =
         ToString(Len(received)
                    \div (IF seconds_from_start = 0 THEN 1
                          ELSE seconds_from_start))

\* C15, amended: at every update made after at least one whole second the
\* field shows the loop counter (the results received so far plus the one
\* about to be received) divided by the elapsed whole seconds; during the
\* first second it shows "warming up...".
C15_RateShown ==
    pc = "recv"
    => bar_message =
         IF seconds_from_start >= 1
           THEN ToString((Len(received) + 1) \div seconds_from_start)
           ELSE "warming up..."

\* The second update of a run was made two seconds after the start.
C15_Witness ==
    /\ pc = "recv"
    /\ Len(received) = 1
    /\ seconds_from_start = 2
    /\ bar_message = "1"

\* C16: after an early-exit trigger the workers stop: once the driver has
\* left the loop because of an error result, no probe that was still untaken
\* is dispatched.
C16_WorkersStopped ==
    [][(EarlyExit /\ LoopOver) => pending' = pending]_vars

\* C17: the aggregator changes only in the driver's classify step, by
\* maybe_add_result applied to the result just received; each received
\* result is handed over at most once; a worker step (a send, or the worker
\* returning) leaves the aggregator as it is.
C17_DriverOnlyWriter ==
    /\ [](/\ \A j, k \in 1..Len(offered) : offered[j] = offered[k] => j = k
          /\ Elems(offered) \subseteq Ids(received)
          /\ Ids(results) \subseteq Elems(offered))
    /\ [][/\ (results' # results \/ offered' # offered)
               => /\ pc = "classify" /\ pc' # pc
                  /\ results' = MaybeAddResult(results, msg)
                  /\ offered' = Append(offered, msg.id)
                  /\ chan' = chan /\ pending' = pending /\ worker' = worker
          /\ (chan' # chan \/ pending' # pending \/ worker' # worker)
               => results' = results]_vars

\* One result has been handed to the aggregator and appended while the
\* worker's next result waits in the channel.
C17_Witness ==
    /\ pc = "display"
    /\ Len(offered) = 1
    /\ Len(results) = 1
    /\ Len(chan) = 1

\* C18: in dir and vhost mode a received result with its error field set is
\* never handed to the aggregator and never produces a display line, also
\* when it is not the first result and exit_on_connection_errors is off.
C18_ErrorsNeverOffered ==
    HttpMode
    => \A k \in 1..Len(received) :
          received[k].error
          => /\ received[k].id \notin Elems(offered)
             /\ received[k].id \notin Ids(display)

\* C19: when the receive loop has ended, the progress counter and the bar
\* position equal the number of results received from the channel.
C19_CounterIsReceived ==
    LoopOver
    => /\ current_numbers_of_request = Len(received)
       /\ bar_pos = Len(received)

\* C20: the name on the OK line of a resolved dns result is its domain with
\* exactly the one trailing dot removed and every other character kept.
C20_OkLineName ==
    mode = "dns"
    => \A j \in 1..Len(display) :
          display[j].kind = "OK"
          => \E k \in 1..Len(received) :
                /\ received[k].id = display[j].id
                /\ display[j].text
                     = SubSeq(received[k].domain, 1,
                              Len(received[k].domain) - 1)

====
